---- MODULE Spec2Model ----
(***************************************************************************)
(* Model of the poll-based Modbus/TCP server of modbus_tcp_client_shm:     *)
(* Modbus::TCP::Client_Poll (construction, the bank directory, run()),     *)
(* the driver loop of main(), the named semaphore shared with external     *)
(* processes, and the codec calls run() makes.                             *)
(*                                                                         *)
(* run() is single threaded.  It is cut into steps only where another      *)
(* process can interleave (the semaphore wait and the codec reply); the    *)
(* rest of a step is one atomic action.  Inputs that the code reads once   *)
(* (the revents of a client fd, the bytes of a request) are drawn when the *)
(* code reads them.                                                        *)
(***************************************************************************)
EXTENDS Integers, Sequences, FiniteSets, TLC

VARIABLES
    max_clients,              \* Client_Poll::max_clients
    reconnect,                \* argument of run(), fixed by main()
    sem_enabled,              \* Client_Poll::semaphore != nullptr
    ctor,                     \* the constructor call: mode and mapping argument(s)
    mappings,                 \* Client_Poll::mappings, unit id -> bank handle
    delete_mapping,           \* Client_Poll::delete_mapping
    fallback_mapping,         \* main()'s fallback_mapping: its bank, or nullptr
    client_addrs,             \* keys of Client_Poll::client_addrs
    open_fds,                 \* accepted sockets the process has not closed
    semaphore_error_counter,  \* Client_Poll::semaphore_error_counter
    sem_value,                \* value of the named semaphore
    sem_acquired,             \* Semaphore::is_acquired() of the server
    ext_holds,                \* an external process holds the semaphore
    regs,                     \* bank handle -> holding registers
    pc,                       \* position of main()/run()
    todo,                     \* polled client fds the loop has not reached yet
    cur,                      \* fd.fd of the loop iteration in progress
    mapping,                  \* local `mapping` of the iteration in progress
    any_ready,                \* some polled fd had revents != 0 so far
    result,                   \* what the last run() returned or threw
    sig_revents,              \* revents poll() reported for the signal fd
    notified,                 \* function codes handed to the notifier in this run()
    ev,                       \* the last thing run() did
    acq,                      \* acquire attempts so far: j failures, then k successes
    processes,                \* Mb_Proc_Signal::processes
    bc,                       \* the last broadcast: sigqueue results, calls, warnings
    modbus_lock,              \* Client::modbus_lock: 0, or the connection whose call holds it
    con_socket,               \* Connection::socket of each connection
    tpc,                      \* where the thread of each connection is in handle_request
    restore_socket,           \* the local restore_socket of each call of handle_request
    at_lock,                  \* the context's socket when the call took the lock
    cev,                      \* the last receive, reply or exit of a connection
    nf,                       \* the last call of the notifier and what it did
    modbus_socket,            \* the socket of the codec context `modbus`
    exit_status,              \* exit status of the process once main() has returned
    tcp_timeout,              \* the constructor's tcp_timeout argument
    sockopts,                 \* TCP options set on the listening socket
    log_terminating,          \* main() has written "INFO: Terminating..."
    freed                     \* the mappings handed to modbus_mapping_free, in order

vars == <<max_clients, reconnect, sem_enabled, ctor, mappings, delete_mapping,
          fallback_mapping,
          client_addrs, open_fds, semaphore_error_counter, sem_value,
          sem_acquired, ext_holds, regs, pc, todo, cur, mapping, any_ready,
          result, sig_revents, notified, ev, acq, processes, nf, bc,
          modbus_lock, con_socket, tpc, restore_socket, at_lock, cev,
          modbus_socket, exit_status, tcp_timeout, sockopts, log_terminating, freed>>

connvars == <<modbus_lock, con_socket, tpc, restore_socket, at_lock, cev>>
cfgvars == <<max_clients, reconnect, sem_enabled, ctor, mappings, delete_mapping,
             fallback_mapping, exit_status, tcp_timeout, sockopts, log_terminating,
             freed, connvars>>
semvars == <<sem_value, sem_acquired, ext_holds>>
nfvars == <<processes, nf, bc>>

(***************************************************************************)
(* Bounds of the model.                                                    *)
(***************************************************************************)
\* largest max_clients a configuration uses
MaxClients == 2
\* unit ids are 0..NumUnitIds-1 (the code has MAX_CLIENT_IDS = 256 of them)
NumUnitIds == 2
\* holding registers per bank
NumRegs == 1
\* register values are 0..MaxVal
MaxVal == 1
\* the pids the notifier is given are 1..MaxPids
MaxPids == 2
\* untracked runs explore a failed acquire only while the error counter is below this
CounterCap == 11
\* tracked runs explore at most this many successful acquires
MinGap == 10
\* connections of the server without poll
MaxConns == 2
MaxSucc == 3
\* the small tcp_timeout values a constructor is given are 0..MaxTimeout
MaxTimeout == 11

(***************************************************************************)
(* Program constants.                                                      *)
(***************************************************************************)
SEMAPHORE_ERROR_INC == 10
SEMAPHORE_ERROR_DEC == 1
SEMAPHORE_ERROR_MAX == 1000

\* <sys/poll.h>
POLLIN == 1
POLLPRI == 2
POLLERR == 8
POLLHUP == 16
POLLNVAL == 32

\* <modbus/modbus.h>
MODBUS_FC_READ_HOLDING_REGISTERS == 3
MODBUS_FC_WRITE_SINGLE_REGISTER == 6
MODBUS_EXCEPTION_ILLEGAL_DATA_ADDRESS == 2

\* descriptors main() and listen() create before any client connects
signal_fd == 0
server_socket == 1

NULL == "nullptr"
\* mappings the caller can pass in, and the one modbus_mapping_new() returns
CallerBanks == {"shm1", "shm2"}
NewMapping == "heap"
UnitIds == 0 .. (NumUnitIds - 1)

\* the shared memory banks main() creates: name prefix, and prefix + unit id + '_'
FallbackName == "shm_"
SeparateName(i) == FallbackName \o ToString(i) \o "_"
MainBanks == {FallbackName} \cup {SeparateName(i) : i \in UnitIds}

Banks == CallerBanks \cup MainBanks \cup {NewMapping}

RECURSIVE BitAnd(_, _)
\* the C operator & on non-negative ints
BitAnd(a, b) ==
    IF a = 0 \/ b = 0 THEN 0
    ELSE (a % 2) * (b % 2) + 2 * BitAnd(a \div 2, b \div 2)

\* the C operator ! as an int
LogicalNot(a) == IF a = 0 THEN 1 ELSE 0

Max(a, b) == IF a >= b THEN a ELSE b
Min(a, b) == IF a <= b THEN a ELSE b

\* an `unsigned` (32 bits) is kept as two 16-bit halves <<high, low>>
Half == 65536
\* static_cast<unsigned>(n)
ToUnsigned(n) == <<(n \div Half) % Half, n % Half>>
\* the product of an unsigned and a small factor, as unsigned arithmetic wraps it
MulUnsigned(x, k) == <<(x[1] * k + (x[2] * k) \div Half) % Half, (x[2] * k) % Half>>
\* quotient and remainder of an unsigned by a small divisor, as integers
DivUnsigned(x, k) == (x[1] \div k) * Half + ((x[1] % k) * Half + x[2]) \div k
ModUnsigned(x, k) == ((x[1] % k) * Half + x[2]) % k
\* std::max and std::min of two unsigned
MaxUnsigned(x, y) == IF x[1] > y[1] \/ (x[1] = y[1] /\ x[2] >= y[2]) THEN x ELSE y
MinUnsigned(x, y) == IF MaxUnsigned(x, y) = x THEN y ELSE x

(***************************************************************************)
(* Construction: the bank directory.                                       *)
(***************************************************************************)
\* variant: every slot gets the constructor's argument as it came
ConstructSingle_arg(arg) ==
    [mappings |-> [i \in UnitIds |-> arg], delete_mapping |-> NULL]

\* Client_Poll(host, service, modbus_mapping_t *mapping, ...)
ConstructSingle(arg) ==
    LET mb_mapping == IF arg = NULL THEN NewMapping ELSE arg
    IN  [mappings |-> [i \in UnitIds |-> mb_mapping],
         delete_mapping |-> IF arg = NULL THEN arg ELSE NULL]

\* Client_Poll(host, service, modbus_mapping_t **mappings, ...)
ConstructPerId(arg) ==
    LET absent == \E i \in UnitIds : arg[i] = NULL
    IN  [mappings |-> [i \in UnitIds |-> IF arg[i] = NULL THEN NewMapping ELSE arg[i]],
         delete_mapping |-> IF absent THEN NewMapping ELSE NULL]

\* Client(host, service, modbus_mapping_t *mapping, ...), the server without poll
ConstructLegacy(arg) ==
    [mappings |-> [i \in UnitIds |-> arg], delete_mapping |-> IF arg = NULL THEN arg ELSE NULL]

Construct(c) ==
    IF c.mode = "single" THEN ConstructSingle(c.arg)
    ELSE IF c.mode = "legacy" THEN ConstructLegacy(c.arg)
    ELSE ConstructPerId(c.arg)

(***************************************************************************)
(* Construction: the TCP options of the listening socket.                  *)
(***************************************************************************)
\* no option set: the system defaults apply
NoSockopts == [o \in {} |-> <<0, 0>>]

\* set_tcp_timeout(tcp_timeout): the four setsockopt calls
set_tcp_timeout(timeout) ==
    [TCP_USER_TIMEOUT |-> MulUnsigned(ToUnsigned(timeout), 1000),
     TCP_KEEPIDLE |-> ToUnsigned(1),
     TCP_KEEPINTVL |-> MaxUnsigned(ToUnsigned(timeout \div 5), ToUnsigned(1)),
     TCP_KEEPCNT |-> MinUnsigned(ToUnsigned(timeout), ToUnsigned(5))]

\* the end of both constructors: if (tcp_timeout) set_tcp_timeout(tcp_timeout)
ConstructSockopts(timeout) == IF timeout # 0 THEN set_tcp_timeout(timeout) ELSE NoSockopts

\* main(): the default of --tcp-timeout
DefaultTcpTimeout == 5

SingleCtors == [mode : {"single"}, arg : CallerBanks \cup {NULL}]
LegacyCtors == [mode : {"legacy"}, arg : CallerBanks \cup {NULL}]
PerIdCtors == [mode : {"per_id"}, arg : [UnitIds -> CallerBanks \cup {NULL}]]

\* main(): what --separate and --separate-all can be; both together are refused
MainArgs ==
    {a \in [separate : SUBSET UnitIds, separate_all : BOOLEAN] :
        ~(a.separate # {} /\ a.separate_all)}

\* main(): fallback_mapping is created unless --separate-all is given
main_fallback(args) == IF args.separate_all THEN NULL ELSE FallbackName

\* main(): mb_mappings, the array handed to the constructor
mb_mappings(args) ==
    [i \in UnitIds |->
        IF args.separate_all \/ i \in args.separate THEN SeparateName(i)
        ELSE FallbackName]

\* variant: every request is served from the bank of unit id 0
Lookup_first(unit_id) == mappings[0]

\* the bank directory lookup of run(): mappings[CLIENT_ID]
Lookup(unit_id) == mappings[unit_id]

(***************************************************************************)
(* Events.                                                                 *)
(***************************************************************************)
Ev(op, fd, fc, exc, val) ==
    [op |-> op, fd |-> fd, fc |-> fc, exc |-> exc, val |-> val, unit |-> 0, addr |-> 0,
     wait |-> 0]
\* a request was received: its unit id byte
EvRequest(fd, unit_id) == [Ev("request", fd, 0, 0, 0) EXCEPT !.unit = unit_id]
\* modbus_reply ran on a request: its function code and address, and the response
EvReply(op, fd, req, exc, val) == [Ev(op, fd, req.fc, exc, val) EXCEPT !.addr = req.addr]
NoEv == Ev("none", 0, 0, 0, 0)

\* static constexpr struct timespec SEMAPHORE_MAX_TIME = {0, 100'000}
SEMAPHORE_MAX_TIME == [tv_sec |-> 0, tv_nsec |-> 100000]
\* a struct timespec in nanoseconds
TimespecNs(ts) == ts.tv_sec * 1000000000 + ts.tv_nsec
\* semaphore->wait(SEMAPHORE_MAX_TIME) was called: the time it may wait, in ns
EvWait(op, fd, val) == [Ev(op, fd, 0, 0, val) EXCEPT !.wait = TimespecNs(SEMAPHORE_MAX_TIME)]

\* exit_status while the process runs
Running == -1
\* modbus_socket: the context has no socket; the model does not follow the socket
NoSocket == -1
Unobserved == -2
\* the context's socket becomes s
SetSocket(s) == IF modbus_socket = Unobserved THEN Unobserved ELSE s

\* acq when the acquire attempts are not counted
Untracked == [j |-> -1, k |-> -1]
Tracked == acq.j >= 0

\* a call of the notifier: what was asked and what came of it
Nf(op, pid, errno, fc, sent, value, attempted, esrch, res) ==
    [op |-> op, pid |-> pid, errno |-> errno, fc |-> fc, sent |-> sent, value |-> value,
     attempted |-> attempted, esrch |-> esrch, result |-> res]
NoNf == Nf("none", 0, "ok", 0, FALSE, 0, {}, {}, "ok")

\* a broadcast: what sigqueue reports for each process, the calls of sigqueue in
\* their order, and the processes of the warning lines in their order
Bc(errno, attempts, warned) == [errno |-> errno, attempts |-> attempts, warned |-> warned]
NoBc == Bc(<<>>, <<>>, <<>>)

\* the connections of the server without poll, each served by a thread of its own
Conns == 1 .. MaxConns
\* a receive, a reply or an exit of handle_request: the connection, what happened,
\* and the socket of the context it happened on
Cev(c, op, on) == [c |-> c, op |-> op, on |-> on]
\* no connection has been accepted
NoConnections ==
    /\ modbus_lock = 0
    /\ con_socket = [c \in Conns |-> NoSocket]
    /\ tpc = [c \in Conns |-> "none"]
    /\ restore_socket = [c \in Conns |-> NoSocket]
    /\ at_lock = [c \in Conns |-> NoSocket]
    /\ cev = Cev(0, "none", NoSocket)

(***************************************************************************)
(* Initial states.                                                         *)
(***************************************************************************)
InitWith(mc, rc, se, c, a) ==
    /\ max_clients = mc
    /\ acq = a
    /\ reconnect = rc
    /\ sem_enabled = se
    /\ ctor = c
    /\ mappings = Construct(c).mappings
    /\ delete_mapping = Construct(c).delete_mapping
    /\ client_addrs = {}
    /\ open_fds = {}
    /\ semaphore_error_counter = 0
    /\ sem_value = 1
    /\ sem_acquired = FALSE
    /\ ext_holds = FALSE
    /\ regs = [b \in Banks |-> [r \in 0 .. (NumRegs - 1) |-> 0]]
    /\ pc = "idle"
    /\ todo = {}
    /\ cur = 0
    /\ mapping = NULL
    /\ any_ready = FALSE
    /\ result = "none"
    /\ sig_revents = 0
    /\ notified = <<>>
    /\ ev = NoEv
    /\ processes = {}
    /\ bc = NoBc
    /\ NoConnections
    /\ nf = NoNf
    /\ exit_status = Running
    /\ log_terminating = FALSE
    /\ freed = <<>>
    /\ tcp_timeout = DefaultTcpTimeout
    /\ sockopts = ConstructSockopts(DefaultTcpTimeout)

\* the server with one caller-supplied mapping, with and without the semaphore
Init ==
    \E mc \in 1 .. MaxClients, rc \in BOOLEAN, se \in BOOLEAN :
        /\ InitWith(mc, rc, se, [mode |-> "single", arg |-> "shm1"], Untracked)
        /\ fallback_mapping = NULL
        /\ modbus_socket = Unobserved

\* the server with the semaphore and one client at most, counting its acquire attempts
InitSem ==
    \E rc \in BOOLEAN :
        /\ InitWith(1, rc, TRUE, [mode |-> "single", arg |-> "shm1"], [j |-> 0, k |-> 0])
        /\ fallback_mapping = NULL
        /\ modbus_socket = Unobserved

\* the same with two clients at most, reconnect on
InitSem2 ==
    /\ InitWith(2, TRUE, TRUE, [mode |-> "single", arg |-> "shm1"], [j |-> 0, k |-> 0])
    /\ fallback_mapping = NULL
    /\ modbus_socket = Unobserved

(***************************************************************************)
(* main(): the driver loop around run().                                   *)
(***************************************************************************)
\* what run() can return; "none" before the first cycle
run_t == {"ok", "term_signal", "term_nocon", "timeout", "interrupted", "semaphore"}

\* variant: main() calls run() again after the semaphore gave out
MainNext_retry(r) ==
    IF r \in {"ok", "timeout", "interrupted", "semaphore"} THEN "idle" ELSE "done"

\* where main() goes after run() returned r or threw
MainNext(r) == IF r \in {"ok", "timeout", "interrupted"} THEN "idle" ELSE "done"

\* run() ends with r: its locals are gone
Leave(r) ==
    /\ result' = r
    /\ pc' = MainNext(r)
    /\ todo' = {}
    /\ cur' = 0
    /\ mapping' = NULL
    /\ any_ready' = FALSE

(***************************************************************************)
(* run(): poll and the dispatch of the signal fd and the server socket.    *)
(***************************************************************************)
\* variant: the server socket is polled whatever the size of the table
poll_server_always == TRUE

\* the server socket is in the poll set only while the table has room
poll_server == Cardinality(client_addrs) < max_clients

\* variant: the server socket is in the poll set whatever the size of the table
PollFds_full == {signal_fd, server_socket} \cup client_addrs

\* the descriptors run() hands to poll(): poll_fds[0 .. poll_size - 1]
PollFds ==
    {signal_fd} \cup (IF poll_server THEN {server_socket} ELSE {}) \cup client_addrs

\* what poll() can report: a signalfd reports POLLIN when a signal is pending and
\* never a fault bit with it, so its fault bits are drawn one at a time
SignalRevents == {0, POLLIN, POLLERR, POLLHUP, POLLNVAL, POLLPRI}
ServerRevents == {0, POLLIN, POLLERR, POLLHUP, POLLNVAL, POLLPRI, POLLIN + POLLERR}
ClientRevents == {0, POLLIN, POLLHUP, POLLIN + POLLHUP, POLLERR, POLLERR + POLLHUP,
                  POLLNVAL, POLLPRI}

\* variant: a readable signal fd is taken for a fault
SignalDispatch_fault(revents) == IF revents = 0 THEN "continue" ELSE "logic_error"

\* the checks of the signal fd's revents
SignalDispatch(revents) ==
    IF revents = 0 THEN "continue"
    ELSE IF BitAnd(revents, POLLNVAL) # 0 THEN "logic_error"
    ELSE IF BitAnd(revents, POLLERR) # 0 THEN "logic_error"
    ELSE IF BitAnd(revents, POLLHUP) # 0 THEN "logic_error"
    ELSE IF BitAnd(revents, POLLIN) # 0 THEN "term_signal"
    ELSE "logic_error"

\* variant: a readable server socket is passed over without the accept
ServerDispatch_deaf(revents) ==
    IF revents = 0 THEN "continue"
    ELSE IF BitAnd(revents, POLLNVAL) # 0 THEN "logic_error"
    ELSE IF BitAnd(revents, POLLHUP) # 0 THEN "logic_error"
    ELSE IF BitAnd(revents, POLLIN) # 0 \/ BitAnd(revents, POLLERR) # 0 THEN "continue"
    ELSE "logic_error"

\* the checks of the server socket's revents
ServerDispatch(revents) ==
    IF revents = 0 THEN "continue"
    ELSE IF BitAnd(revents, POLLNVAL) # 0 THEN "logic_error"
    ELSE IF BitAnd(revents, POLLHUP) # 0 THEN "logic_error"
    ELSE IF BitAnd(revents, POLLIN) # 0 \/ BitAnd(revents, POLLERR) # 0 THEN "accept"
    ELSE "logic_error"

\* the descriptor accept() returns: the lowest one that is not open
NewFd ==
    CHOOSE f \in (server_socket + 1) .. (server_socket + 1 + Cardinality(open_fds)) :
        /\ f \notin open_fds
        /\ \A g \in (server_socket + 1) .. (f - 1) : g \in open_fds

\* variant: a wait that brought nothing ends in the reconnect check
PollOutcome_check(tmp, errno) ==
    IF tmp > 0 THEN "dispatch"
    ELSE IF tmp = -1 /\ errno # "EINTR" THEN "system_error"
    ELSE IF ~reconnect /\ client_addrs = {} THEN "term_nocon"
    ELSE IF tmp = -1 THEN "interrupted"
    ELSE "timeout"

\* what run() does with the return value of poll()
PollOutcome(tmp, errno) ==
    IF tmp = -1 THEN (IF errno = "EINTR" THEN "interrupted" ELSE "system_error")
    ELSE IF tmp = 0 THEN "timeout"
    ELSE "dispatch"

\* poll() fails with EINTR
RunInterrupted ==
    /\ pc = "idle"
    /\ Leave(PollOutcome(-1, "EINTR"))
    /\ sig_revents' = 0
    /\ notified' = <<>>
    /\ ev' = NoEv
    /\ UNCHANGED <<cfgvars, modbus_socket, nfvars, semvars, client_addrs, open_fds, semaphore_error_counter, regs, acq>>

\* poll() fails with another error: std::system_error
RunPollError ==
    /\ pc = "idle"
    /\ Leave(PollOutcome(-1, "ENOMEM"))
    /\ sig_revents' = 0
    /\ notified' = <<>>
    /\ ev' = NoEv
    /\ UNCHANGED <<cfgvars, modbus_socket, nfvars, semvars, client_addrs, open_fds, semaphore_error_counter, regs, acq>>

\* poll() returns 0
RunTimeout ==
    /\ pc = "idle"
    /\ Leave(PollOutcome(0, "none"))
    /\ sig_revents' = 0
    /\ notified' = <<>>
    /\ ev' = NoEv
    /\ UNCHANGED <<cfgvars, modbus_socket, nfvars, semvars, client_addrs, open_fds, semaphore_error_counter, regs, acq>>

\* poll() returns > 0 and the signal fd has revents: run() ends at once
RunSignal ==
    /\ pc = "idle"
    /\ \E rs \in SignalRevents \ {0} :
        /\ sig_revents' = rs
        /\ Leave(SignalDispatch(rs))
    /\ notified' = <<>>
    /\ ev' = NoEv
    /\ UNCHANGED <<cfgvars, modbus_socket, nfvars, semvars, client_addrs, open_fds, semaphore_error_counter, regs, acq>>

\* poll() returns > 0, the signal fd has none, the server socket is handled;
\* the loop over the polled client fds comes next
RunServer ==
    /\ pc = "idle"
    /\ sig_revents' = 0
    /\ notified' = <<>>
    /\ \E rv \in (IF server_socket \in PollFds THEN ServerRevents ELSE {0}) :
        \* poll() > 0: some polled fd has revents
        /\ rv # 0 \/ client_addrs # {}
        /\ LET d == ServerDispatch(rv) IN
           IF d = "logic_error" THEN
               /\ Leave("logic_error")
               /\ ev' = NoEv
               /\ UNCHANGED <<client_addrs, open_fds, modbus_socket>>
           ELSE IF d = "accept" THEN
               \E how \in {"ok", "accept_fails", "getpeername_fails"} :
                   IF how = "ok" THEN
                       /\ client_addrs' = client_addrs \cup {NewFd}
                       /\ open_fds' = open_fds \cup {NewFd}
                       /\ ev' = Ev("accept", NewFd, 0, 0, Cardinality(client_addrs) + 1)
                       /\ modbus_socket' = SetSocket(NewFd)
                       /\ pc' = "clients"
                       /\ todo' = PollFds \ {signal_fd, server_socket}
                       /\ any_ready' = TRUE
                       /\ UNCHANGED <<cur, mapping, result>>
                   ELSE
                       /\ Leave("runtime_error")
                       /\ ev' = NoEv
                       /\ client_addrs' = client_addrs
                       /\ open_fds' = IF how = "getpeername_fails"
                                      THEN open_fds \cup {NewFd} ELSE open_fds
                       /\ modbus_socket' = SetSocket(IF how = "getpeername_fails"
                                                     THEN NewFd ELSE NoSocket)
           ELSE
               /\ pc' = "clients"
               /\ todo' = PollFds \ {signal_fd, server_socket}
               /\ any_ready' = FALSE
               /\ ev' = NoEv
               /\ UNCHANGED <<client_addrs, open_fds, cur, mapping, result, modbus_socket>>
    /\ UNCHANGED <<cfgvars, nfvars, semvars, semaphore_error_counter, regs, acq>>

(***************************************************************************)
(* run(): the loop over the polled client fds.                             *)
(***************************************************************************)
\* variant: close() without the erase
close_con_keep(fd) ==
    /\ open_fds' = open_fds \ {fd}
    /\ client_addrs' = client_addrs

\* variant: the erase without close()
close_con_leak(fd) ==
    /\ open_fds' = open_fds
    /\ client_addrs' = client_addrs \ {fd}

\* the lambda close_con
close_con(fd) ==
    /\ open_fds' = open_fds \ {fd}
    /\ client_addrs' = client_addrs \ {fd}

\* variant: the INFO line of close_con prints the size of the table as it is
close_con_count_before == Cardinality(client_addrs)

\* the count in the INFO line of close_con: client_addrs.size() - 1, before the erase
close_con_count == Cardinality(client_addrs) - 1

\* variant: the context keeps the first client socket
modbus_set_socket_first(fd) == server_socket + 1

\* modbus_set_socket(modbus, fd.fd): the socket modbus_receive and modbus_reply use
modbus_set_socket(fd) == fd

\* fd.revents & POLLHUP & !(fd.revents & POLLERR)
HangupTest(revents) ==
    BitAnd(BitAnd(revents, POLLHUP), LogicalNot(BitAnd(revents, POLLERR)))

\* poll() reported the hang-up bit without the error bit
HupNoErr(revents) == BitAnd(revents, POLLHUP) # 0 /\ BitAnd(revents, POLLERR) = 0

\* variant: only a readable client fd is served, one in error is passed over
ClientDispatch_readable(revents) ==
    IF revents = 0 THEN "skip"
    ELSE IF BitAnd(revents, POLLNVAL) # 0 THEN "logic_error"
    ELSE IF BitAnd(revents, POLLIN) # 0 THEN "exchange"
    ELSE "ignore"

\* which branch the loop body takes for a client fd
ClientDispatch(revents) ==
    IF revents = 0 THEN "skip"
    ELSE IF BitAnd(revents, POLLNVAL) # 0 THEN "logic_error"
    ELSE IF HangupTest(revents) # 0 THEN "hangup"
    ELSE IF BitAnd(revents, POLLIN) # 0 \/ BitAnd(revents, POLLERR) # 0 THEN "exchange"
    ELSE "ignore"

\* modbus_receive: a request (rc > 0), nothing (rc = 0), or -1 with errno
ReceiveResults == {"request", "zero", "ECONNRESET", "error"}

\* one iteration, up to the semaphore wait or the end of the iteration
ClientStepOn(fd, rv) ==
    /\ pc = "clients"
    /\ fd \in todo
    \* poll() > 0: the last polled fd has revents if no other fd had
    /\ rv # 0 \/ any_ready \/ todo # {fd}
    /\ LET d == ClientDispatch(rv) IN
       IF d = "logic_error" THEN
           /\ Leave("logic_error")
           /\ ev' = Ev("nval", fd, 0, 0, 0)
           /\ UNCHANGED <<client_addrs, open_fds, modbus_socket>>
       ELSE IF d = "hangup" THEN
           /\ close_con(fd)
           /\ ev' = Ev("hangup", fd, 0, 0, close_con_count)
           /\ todo' = todo \ {fd}
           /\ any_ready' = TRUE
           /\ UNCHANGED <<pc, cur, mapping, result, modbus_socket>>
       ELSE IF d = "exchange" THEN
           \E rc \in ReceiveResults :
               /\ modbus_socket' = SetSocket(modbus_set_socket(fd))
               /\ IF rc = "request" THEN
                     \E unit_id \in UnitIds :
                         /\ mapping' = Lookup(unit_id)
                         /\ cur' = modbus_set_socket(fd)
                         /\ pc' = IF sem_enabled THEN "sem" ELSE "reply"
                         /\ ev' = EvRequest(fd, unit_id)
                         /\ todo' = todo \ {fd}
                         /\ any_ready' = TRUE
                         /\ UNCHANGED <<client_addrs, open_fds, result>>
                  ELSE
                     /\ close_con(fd)
                     /\ ev' = Ev(rc, fd, 0, 0, close_con_count)
                     /\ todo' = todo \ {fd}
                     /\ any_ready' = TRUE
                     /\ UNCHANGED <<pc, cur, mapping, result>>
       ELSE
           /\ ev' = Ev(d, fd, 0, 0, 0)
           /\ todo' = todo \ {fd}
           /\ any_ready' = (any_ready \/ rv # 0)
           /\ UNCHANGED <<client_addrs, open_fds, pc, cur, mapping, result, modbus_socket>>
    /\ UNCHANGED <<cfgvars, nfvars, semvars, semaphore_error_counter, regs, sig_revents, notified, acq>>

ClientStep == \E fd \in todo, rv \in ClientRevents : ClientStepOn(fd, rv)

\* the counter after a failed and after a successful acquire
CounterAfterFail(c) == c + SEMAPHORE_ERROR_INC
\* variant: a successful acquire leaves the counter as it is
CounterAfterSuccess_stuck(c) == c
\* variant: the decrement without the clamp at 0
CounterAfterSuccess_unclamped(c) == c - SEMAPHORE_ERROR_DEC
CounterAfterSuccess(c) == Max(c - SEMAPHORE_ERROR_DEC, 0)
\* variant: the limit itself is not fatal yet
Fatal_late(c) == c > SEMAPHORE_ERROR_MAX
Fatal(c) == c >= SEMAPHORE_ERROR_MAX

\* acq in a run whose failed acquires are isolated: k is the number of successful
\* acquires since the last failed one, counted up to MinGap
Isolated == acq.j = -3
\* acq in a run whose acquires fail and succeed in any order
AnyOrder == acq.j = -4

\* acq after one more failed and one more successful acquire
AcqAfterFail ==
    IF Tracked THEN [acq EXCEPT !.j = acq.j + 1]
    ELSE IF Isolated THEN [acq EXCEPT !.k = 0]
    ELSE acq
AcqAfterSuccess ==
    IF Tracked THEN [acq EXCEPT !.k = acq.k + 1]
    ELSE IF Isolated THEN [acq EXCEPT !.k = Min(acq.k + 1, MinGap)]
    ELSE acq

\* the failed acquires a run explores
MayFail ==
    IF Tracked THEN acq.k = 0
    ELSE IF Isolated THEN acq.k = MinGap
    ELSE IF AnyOrder THEN TRUE
    ELSE semaphore_error_counter < CounterCap

\* variant: return semaphore and leave the connection as it is
SemFatal_keep ==
    /\ UNCHANGED <<client_addrs, open_fds>>
    /\ ev' = EvWait("sem_fatal", cur, close_con_count)
    /\ Leave("semaphore")

\* the counter reached SEMAPHORE_ERROR_MAX: close the connection, return semaphore
SemFatal ==
    /\ close_con(cur)
    /\ ev' = EvWait("sem_fatal", cur, close_con_count)
    /\ Leave("semaphore")

\* semaphore->wait(SEMAPHORE_MAX_TIME) and what follows it before modbus_reply.
\* Untracked, a failed acquire is explored while the counter is below CounterCap;
\* tracked, the attempts explored are failures followed by at most MaxSucc successes;
\* isolated, a failure after MinGap successes; in any order, every attempt.
SemWait ==
    /\ pc = "sem"
    /\ IF sem_value > 0 THEN
           /\ Tracked => acq.k < MaxSucc
           /\ acq' = AcqAfterSuccess
           /\ sem_value' = sem_value - 1
           /\ sem_acquired' = TRUE
           /\ semaphore_error_counter' = CounterAfterSuccess(semaphore_error_counter)
           /\ pc' = "reply"
           /\ ev' = EvWait("sem_ok", cur, 0)
           /\ UNCHANGED <<client_addrs, open_fds, todo, cur, mapping, any_ready, result>>
       ELSE
           /\ MayFail
           /\ acq' = AcqAfterFail
           /\ semaphore_error_counter' = CounterAfterFail(semaphore_error_counter)
           /\ UNCHANGED <<sem_value, sem_acquired>>
           /\ IF Fatal(CounterAfterFail(semaphore_error_counter)) THEN SemFatal
              ELSE
                  /\ pc' = "reply"
                  /\ ev' = EvWait("sem_timeout", cur, 0)
                  /\ UNCHANGED <<client_addrs, open_fds, todo, cur, mapping, any_ready, result>>
    /\ UNCHANGED <<cfgvars, modbus_socket, nfvars, ext_holds, regs, sig_revents, notified>>

(***************************************************************************)
(* The codec: modbus_reply on one request and one bank.                    *)
(***************************************************************************)
Requests ==
    [fc : {MODBUS_FC_READ_HOLDING_REGISTERS}, addr : 0 .. NumRegs, val : {0}]
    \cup [fc : {MODBUS_FC_WRITE_SINGLE_REGISTER}, addr : 0 .. NumRegs, val : 0 .. MaxVal]

\* variant: modbus_reply writes nothing
ReplyRegs_none(tab, req) == tab

\* the registers of the bank after modbus_reply
ReplyRegs(tab, req) ==
    IF req.fc = MODBUS_FC_WRITE_SINGLE_REGISTER /\ req.addr < NumRegs
    THEN [tab EXCEPT ![req.addr] = req.val]
    ELSE tab

\* variant: no address is refused
ReplyException_none(tab, req) == 0

\* the response modbus_reply composes: exception code and value
ReplyException(tab, req) ==
    IF req.addr >= NumRegs THEN MODBUS_EXCEPTION_ILLEGAL_DATA_ADDRESS ELSE 0

ReplyValue(tab, req) ==
    IF req.addr >= NumRegs THEN 0
    ELSE IF req.fc = MODBUS_FC_READ_HOLDING_REGISTERS THEN tab[req.addr]
    ELSE req.val

\* variant: the semaphore is not posted
PostIfAcquired_never == UNCHANGED <<sem_value, sem_acquired>>

\* variant: the semaphore is posted whether it is held or not
PostIfAcquired_always ==
    IF sem_enabled THEN
        /\ sem_value' = sem_value + 1
        /\ sem_acquired' = FALSE
    ELSE UNCHANGED <<sem_value, sem_acquired>>

\* if (semaphore && semaphore->is_acquired()) semaphore->post()
PostIfAcquired ==
    IF sem_enabled /\ sem_acquired THEN
        /\ sem_value' = sem_value + 1
        /\ sem_acquired' = FALSE
    ELSE UNCHANGED <<sem_value, sem_acquired>>

\* modbus_reply, the release of the semaphore, and the check of ret
Reply ==
    /\ pc = "reply"
    /\ \E req \in Requests, sent \in BOOLEAN :
        /\ regs' = [regs EXCEPT ![mapping] = ReplyRegs(regs[mapping], req)]
        /\ IF sent THEN
               /\ ev' = EvReply("reply", cur, req, ReplyException(regs[mapping], req),
                               ReplyValue(regs[mapping], req))
               /\ UNCHANGED <<client_addrs, open_fds>>
           ELSE
               /\ ev' = EvReply("reply_failed", cur, req, 0, close_con_count)
               /\ close_con(cur)
    /\ PostIfAcquired
    /\ pc' = "clients"
    /\ cur' = 0
    /\ mapping' = NULL
    /\ UNCHANGED <<cfgvars, modbus_socket, nfvars, ext_holds, semaphore_error_counter, todo, any_ready,
                   result, sig_revents, notified, acq>>

\* variant: the check without the reconnect flag
EndResult_noflag == IF client_addrs = {} THEN "term_nocon" ELSE "ok"

\* the reconnect check that ends run()
EndResult == IF ~reconnect /\ client_addrs = {} THEN "term_nocon" ELSE "ok"

RunEnd ==
    /\ pc = "clients"
    /\ todo = {}
    /\ Leave(EndResult)
    /\ ev' = NoEv
    /\ UNCHANGED <<cfgvars, modbus_socket, nfvars, semvars, client_addrs, open_fds, semaphore_error_counter,
                   regs, sig_revents, notified, acq>>

(***************************************************************************)
(* External processes that respect the semaphore.                          *)
(***************************************************************************)
ExtAcquire ==
    /\ sem_enabled
    /\ sem_value > 0
    /\ ~ext_holds
    /\ sem_value' = sem_value - 1
    /\ ext_holds' = TRUE
    /\ UNCHANGED <<cfgvars, modbus_socket, nfvars, client_addrs, open_fds, semaphore_error_counter, sem_acquired,
                   regs, pc, todo, cur, mapping, any_ready, result, sig_revents, notified, ev, acq>>

ExtRelease ==
    /\ ext_holds
    /\ sem_value' = sem_value + 1
    /\ ext_holds' = FALSE
    /\ UNCHANGED <<cfgvars, modbus_socket, nfvars, client_addrs, open_fds, semaphore_error_counter, sem_acquired,
                   regs, pc, todo, cur, mapping, any_ready, result, sig_revents, notified, ev, acq>>

\* an external process writes a shared register while it holds the semaphore
ExtWrite ==
    /\ ext_holds
    /\ \E b \in (CallerBanks \cup MainBanks) \cap {mappings[i] : i \in UnitIds},
          r \in 0 .. (NumRegs - 1), v \in 0 .. MaxVal :
        /\ regs[b][r] # v
        /\ regs' = [regs EXCEPT ![b][r] = v]
    /\ UNCHANGED <<cfgvars, modbus_socket, nfvars, semvars, client_addrs, open_fds, semaphore_error_counter,
                   pc, todo, cur, mapping, any_ready, result, sig_revents, notified, ev, acq>>

(***************************************************************************)
(* main(): the end of the process.                                         *)
(***************************************************************************)
\* <sysexits.h>
EX_OSERR == 71

\* modbus_close(modbus): close() on the context's socket if it has one
modbus_close == IF modbus_socket = NoSocket THEN open_fds ELSE open_fds \ {modbus_socket}

\* variant: only the end of the loop by term_nocon counts as a success
MainStatus_nocon == IF result = "term_nocon" THEN 0 ELSE EX_OSERR

\* main() after the driver loop and after its catch block: it logs and runs off its
\* end, whatever run() returned or threw
MainStatus == 0

\* if (delete_mapping) modbus_mapping_free(delete_mapping)
FreeDeleteMapping == IF delete_mapping # NULL THEN Append(freed, delete_mapping) ELSE freed

\* main() returns: ~Client_Poll() runs on `client`; the table is destroyed with it,
\* its descriptors are not closed by the destructor
Destroy ==
    /\ pc = "done"
    /\ modbus_socket # Unobserved
    /\ pc' = "destroyed"
    /\ open_fds' = modbus_close
    /\ client_addrs' = {}
    /\ modbus_socket' = NoSocket
    /\ ev' = Ev("destroy", modbus_socket, 0, 0, Cardinality(client_addrs))
    /\ freed' = FreeDeleteMapping
    /\ UNCHANGED <<max_clients, reconnect, sem_enabled, ctor, mappings, delete_mapping,
                   fallback_mapping, exit_status, tcp_timeout, sockopts, log_terminating,
                   nfvars, connvars, semvars, semaphore_error_counter, regs, todo, cur,
                   mapping, any_ready, result, sig_revents, notified, acq>>

\* the process ends: the kernel closes every descriptor that is still open
ProcessExit ==
    /\ pc = "destroyed"
    /\ pc' = "exited"
    /\ exit_status' = MainStatus
    /\ log_terminating' = TRUE
    /\ open_fds' = {}
    /\ UNCHANGED <<max_clients, reconnect, sem_enabled, ctor, mappings, delete_mapping,
                   fallback_mapping, tcp_timeout, sockopts, freed, nfvars, connvars, semvars,
                   client_addrs,
                   modbus_socket, semaphore_error_counter, regs, todo, cur, mapping,
                   any_ready, result, sig_revents, notified, ev, acq>>

Run ==
    \/ RunInterrupted
    \/ RunPollError
    \/ RunTimeout
    \/ RunSignal
    \/ RunServer
    \/ ClientStep
    \/ Reply
    \/ RunEnd

Ext == ExtAcquire \/ ExtRelease \/ ExtWrite

\* variant: every function code is signalled
mb_callback_any(mb_funtion_code) == <<mb_funtion_code>>

\* mb_callback: the function codes that make the notifier signal its processes
WriteFCs == {5, 6, 15, 16, 23}
mb_callback(mb_funtion_code) ==
    IF mb_funtion_code \in WriteFCs THEN <<mb_funtion_code>> ELSE <<>>

(***************************************************************************)
(* Mb_Proc_Signal: the processes that are signalled on a write.            *)
(***************************************************************************)
Pids == 1 .. MaxPids
\* uint8_t mb_funtion_code
FunctionCodes == 0 .. 255
\* what kill() and sigqueue() report: success, ESRCH, or another errno
KillResults == {"ok", "ESRCH", "EPERM"}

\* variant: the pid is inserted whatever the probe reports
add_process_unprobed(procs, process, errno) ==
    [processes |-> procs \cup {process}, result |-> "ok"]

\* add_process: kill(process, 0), then the insert
add_process(procs, process, errno) ==
    IF errno = "ok" THEN [processes |-> procs \cup {process}, result |-> "ok"]
    ELSE IF errno = "ESRCH" THEN [processes |-> procs, result |-> "runtime_error"]
    ELSE [processes |-> procs, result |-> "system_error"]

\* the orders in which the loop over the unordered_set can visit its elements
Orders(procs) ==
    {o \in [1 .. Cardinality(procs) -> procs] :
        \A i, j \in 1 .. Cardinality(procs) : o[i] = o[j] => i = j}

\* variant: the ESRCH reporters are erased and warned about as they are found
send_signal_eager(procs, order, errno) ==
    LET n == Cardinality(procs)
        bad == {i \in 1 .. n : errno[order[i]] \notin {"ok", "ESRCH"}}
        last == IF bad = {} THEN n ELSE CHOOSE i \in bad : \A j \in bad : i <= j
        attempts == SubSeq(order, 1, last)
        attempted == {order[i] : i \in 1 .. last}
        erased == {proc \in attempted : errno[proc] = "ESRCH"}
        IsErased(proc) == proc \in erased
    IN  [processes |-> procs \ erased,
         attempted |-> attempted,
         attempts |-> attempts,
         esrch |-> erased,
         warned |-> SelectSeq(attempts, IsErased),
         result |-> IF bad = {} THEN "ok" ELSE "system_error"]

\* variant: the ESRCH reporters stay in the set
send_signal_keep(procs, order, errno) ==
    LET n == Cardinality(procs)
        bad == {i \in 1 .. n : errno[order[i]] \notin {"ok", "ESRCH"}}
        last == IF bad = {} THEN n ELSE CHOOSE i \in bad : \A j \in bad : i <= j
        attempts == SubSeq(order, 1, last)
        attempted == {order[i] : i \in 1 .. last}
        erased == {proc \in attempted : errno[proc] = "ESRCH"}
    IN  [processes |-> procs,
         attempted |-> attempted,
         attempts |-> attempts,
         esrch |-> erased,
         warned |-> <<>>,
         result |-> IF bad = {} THEN "ok" ELSE "system_error"]

\* send_signal: sigqueue to each process in turn; the first errno other than ESRCH
\* throws before anything is erased, otherwise the ESRCH reporters are erased,
\* each with its warning line
send_signal(procs, order, errno) ==
    LET n == Cardinality(procs)
        bad == {i \in 1 .. n : errno[order[i]] \notin {"ok", "ESRCH"}}
        last == IF bad = {} THEN n ELSE CHOOSE i \in bad : \A j \in bad : i <= j
        attempts == SubSeq(order, 1, last)
        attempted == {order[i] : i \in 1 .. last}
        erased == {proc \in attempted : errno[proc] = "ESRCH"}
        IsErased(proc) == proc \in erased
    IN  [processes |-> IF bad = {} THEN procs \ erased ELSE procs,
         attempted |-> attempted,
         attempts |-> attempts,
         esrch |-> erased,
         warned |-> IF bad = {} THEN SelectSeq(attempts, IsErased) ELSE <<>>,
         result |-> IF bad = {} THEN "ok" ELSE "system_error"]

\* a call of add_process
NfAdd ==
    /\ \E process \in Pids, errno \in KillResults :
        LET r == add_process(processes, process, errno) IN
            /\ processes' = r.processes
            /\ nf' = Nf("add", process, errno, 0, FALSE, 0, {}, {}, r.result)
            /\ bc' = NoBc
    /\ UNCHANGED <<cfgvars, modbus_socket, semvars, client_addrs, open_fds, semaphore_error_counter,
                   regs, pc, todo, cur, mapping, any_ready, result, sig_revents,
                   notified, ev, acq>>

\* a call of mb_callback
NfCallback ==
    /\ \E fc \in FunctionCodes :
        IF mb_callback(fc) = <<>> THEN
            /\ processes' = processes
            /\ nf' = Nf("callback", 0, "ok", fc, FALSE, 0, {}, {}, "ok")
            /\ bc' = NoBc
        ELSE
            \E order \in Orders(processes), errno \in [processes -> KillResults] :
                LET r == send_signal(processes, order, errno) IN
                    /\ processes' = r.processes
                    /\ nf' = Nf("callback", 0, "ok", fc, TRUE, mb_callback(fc)[1],
                                r.attempted, r.esrch, r.result)
                    /\ bc' = Bc(errno, r.attempts, r.warned)
    /\ UNCHANGED <<cfgvars, modbus_socket, semvars, client_addrs, open_fds, semaphore_error_counter,
                   regs, pc, todo, cur, mapping, any_ready, result, sig_revents,
                   notified, ev, acq>>

Next == Run \/ SemWait \/ Ext

Spec == Init /\ [][Next]_vars

SpecSem == InitSem /\ [][Next]_vars

SpecSem2 == InitSem2 /\ [][Next]_vars

\* every way to construct the bank directory; no semaphore, one client at most
InitBD ==
    \E c \in SingleCtors \cup PerIdCtors :
        /\ InitWith(1, TRUE, FALSE, c, Untracked)
        /\ fallback_mapping = NULL
        /\ modbus_socket = Unobserved

SpecBD == InitBD /\ [][Run]_vars

\* the server as main() builds it from its options, without the semaphore
InitMain ==
    \E a \in MainArgs :
        /\ InitWith(MaxClients, TRUE, FALSE, [mode |-> "per_id", arg |-> mb_mappings(a)],
                    Untracked)
        /\ fallback_mapping = main_fallback(a)
        /\ modbus_socket = Unobserved

SpecMain == InitMain /\ [][Run]_vars

\* the largest tcp_timeout whose user timeout in ms fits an unsigned: 2^32 \div 1000
LargestExact == (Half \div 1000) * Half + ((Half % 1000) * Half) \div 1000
\* the tcp_timeout values a constructor is given
TimeoutInputs == (0 .. MaxTimeout) \cup {LargestExact, LargestExact + 1}

\* a constructor of Client_Poll or of Client runs: the bank directory is filled,
\* listen() opens the socket and the TCP options are set
Constructor ==
    /\ pc = "ctor"
    /\ mappings' = Construct(ctor).mappings
    /\ delete_mapping' = Construct(ctor).delete_mapping
    /\ sockopts' = ConstructSockopts(tcp_timeout)
    /\ pc' = IF ctor.mode = "legacy" THEN "legacy" ELSE "idle"
    /\ UNCHANGED <<max_clients, reconnect, sem_enabled, ctor, fallback_mapping, exit_status,
                   log_terminating, freed, tcp_timeout, modbus_socket, nfvars, connvars, semvars, client_addrs, open_fds,
                   semaphore_error_counter, regs, todo, cur, mapping, any_ready, result,
                   sig_revents, notified, ev, acq>>

\* before construction: one mapping argument and a tcp_timeout are chosen for the
\* server with poll or for the one without
InitCtorWith(ctors, timeouts, s) ==
    /\ pc = "ctor"
    /\ ctor \in ctors
    /\ tcp_timeout \in timeouts
    /\ mappings = [i \in UnitIds |-> NULL]
    /\ delete_mapping = NULL
    /\ sockopts = NoSockopts
    /\ max_clients = 1
    /\ reconnect = TRUE
    /\ sem_enabled = FALSE
    /\ fallback_mapping = NULL
    /\ modbus_socket = s
    /\ exit_status = Running
    /\ log_terminating = FALSE
    /\ freed = <<>>
    /\ acq = Untracked
    /\ client_addrs = {}
    /\ open_fds = {}
    /\ semaphore_error_counter = 0
    /\ sem_value = 1
    /\ sem_acquired = FALSE
    /\ ext_holds = FALSE
    /\ regs = [b \in Banks |-> [r \in 0 .. (NumRegs - 1) |-> 0]]
    /\ todo = {}
    /\ cur = 0
    /\ mapping = NULL
    /\ any_ready = FALSE
    /\ result = "none"
    /\ sig_revents = 0
    /\ notified = <<>>
    /\ ev = NoEv
    /\ processes = {}
    /\ bc = NoBc
    /\ NoConnections
    /\ nf = NoNf

InitCtor == InitCtorWith(SingleCtors \cup LegacyCtors, TimeoutInputs, Unobserved)

SpecCtor == InitCtor /\ [][Constructor \/ Run]_vars

\* the whole life of the process with two clients at most: the context's socket is
\* followed, and main() returns after run() ended the driver loop
InitExit ==
    \E rc \in BOOLEAN :
        /\ InitWith(MaxClients, rc, FALSE, [mode |-> "single", arg |-> "shm1"], Untracked)
        /\ fallback_mapping = NULL
        /\ modbus_socket = NoSocket

SpecExit == InitExit /\ [][Run \/ Destroy \/ ProcessExit]_vars

(***************************************************************************)
(* The server without poll: Client::connect_client and the threads that    *)
(* call Connection::handle_request on one shared modbus context.           *)
(***************************************************************************)
\* what the rest of the model leaves alone while the connections run
connframe ==
    <<max_clients, reconnect, sem_enabled, ctor, mappings, delete_mapping, fallback_mapping,
      exit_status, tcp_timeout, sockopts, log_terminating, freed, nfvars, semvars,
      client_addrs, semaphore_error_counter, regs, pc, todo, cur, mapping, any_ready,
      result, sig_revents, notified, ev, acq>>

\* variant: a lock_guard that never waits
LockFree_always == TRUE

\* std::lock_guard guard(modbus_lock) can be constructed: no call holds the mutex
LockFree == modbus_lock = 0

\* modbus_set_socket(modbus, restore_socket)
RestoreSocket(c) == restore_socket[c]

\* the end of a call of handle_request that took the lock: the context gets
\* restore_socket back and the guard releases the mutex
LeaveRequest(c, op, next) ==
    /\ cev' = Cev(c, op, modbus_socket)
    /\ modbus_socket' = RestoreSocket(c)
    /\ modbus_lock' = 0
    /\ tpc' = [tpc EXCEPT ![c] = next]
    /\ UNCHANGED <<con_socket, restore_socket, at_lock, open_fds>>

\* Client::connect_client: the accept under the lock; the new Connection gets the
\* socket the context has after it. At most MaxConns sockets are accepted.
ConnectClient ==
    /\ pc = "legacy"
    /\ LockFree
    /\ Cardinality(open_fds) < MaxConns
    /\ \E c \in Conns, how \in {"ok", "accept_fails", "getpeername_fails"} :
        /\ tpc[c] = "none"
        /\ \A d \in Conns : d < c => tpc[d] # "none"
        /\ IF how = "ok" THEN
               /\ modbus_socket' = NewFd
               /\ open_fds' = open_fds \cup {NewFd}
               /\ con_socket' = [con_socket EXCEPT ![c] = NewFd]
               /\ tpc' = [tpc EXCEPT ![c] = "ready"]
               /\ cev' = Cev(c, "connect", NewFd)
           ELSE
               /\ modbus_socket' = IF how = "getpeername_fails" THEN NewFd ELSE NoSocket
               /\ open_fds' = IF how = "getpeername_fails"
                              THEN open_fds \cup {NewFd} ELSE open_fds
               /\ cev' = Cev(0, how, modbus_socket')
               /\ UNCHANGED <<con_socket, tpc>>
    /\ UNCHANGED <<modbus_lock, restore_socket, at_lock, connframe>>

\* a thread calls handle_request on its connection
CallHandleRequest ==
    /\ \E c \in Conns :
        /\ tpc[c] = "ready"
        /\ tpc' = [tpc EXCEPT ![c] = "poll"]
    /\ UNCHANGED <<modbus_lock, con_socket, restore_socket, at_lock, cev, modbus_socket,
                   open_fds, connframe>>

\* poll(&fd, 1, -1) on the socket of the connection returns: data, EINTR (the wait
\* is repeated) or another error (std::system_error)
PollClient ==
    /\ \E c \in Conns, how \in {"ready", "EINTR", "error"} :
        /\ tpc[c] = "poll"
        /\ IF how = "ready" THEN
               /\ tpc' = [tpc EXCEPT ![c] = "lock"]
               /\ UNCHANGED cev
           ELSE IF how = "EINTR" THEN
               /\ cev' = Cev(c, "EINTR", con_socket[c])
               /\ UNCHANGED tpc
           ELSE
               /\ tpc' = [tpc EXCEPT ![c] = "failed"]
               /\ cev' = Cev(c, "system_error", con_socket[c])
    /\ UNCHANGED <<modbus_lock, con_socket, restore_socket, at_lock, modbus_socket, open_fds,
                   connframe>>

\* std::lock_guard<std::mutex> guard(modbus_lock)
LockGuard ==
    /\ \E c \in Conns :
        /\ tpc[c] = "lock"
        /\ LockFree
        /\ modbus_lock' = c
        /\ at_lock' = [at_lock EXCEPT ![c] = modbus_socket]
        /\ tpc' = [tpc EXCEPT ![c] = "locked"]
    /\ UNCHANGED <<con_socket, restore_socket, cev, modbus_socket, open_fds, connframe>>

\* restore_socket = modbus_get_socket(modbus); modbus_set_socket(modbus, socket)
SelectSocket ==
    /\ \E c \in Conns :
        /\ tpc[c] = "locked"
        /\ restore_socket' = [restore_socket EXCEPT ![c] = modbus_socket]
        /\ modbus_socket' = con_socket[c]
        /\ tpc' = [tpc EXCEPT ![c] = "recv"]
    /\ UNCHANGED <<modbus_lock, con_socket, at_lock, cev, open_fds, connframe>>

\* modbus_receive(modbus, query) on the socket of the context, and the exits
\* that follow rc <= 0
ReceiveOn ==
    /\ \E c \in Conns, rc \in {"request", "zero", "ECONNRESET", "error"} :
        /\ tpc[c] = "recv"
        /\ IF rc = "request" THEN
               /\ cev' = Cev(c, "request", modbus_socket)
               /\ tpc' = [tpc EXCEPT ![c] = "reply"]
               /\ UNCHANGED <<modbus_lock, con_socket, restore_socket, at_lock,
                              modbus_socket, open_fds>>
           ELSE IF rc = "zero" THEN LeaveRequest(c, "return_false", "ready")
           ELSE IF rc = "ECONNRESET" THEN LeaveRequest(c, "return_true", "closed")
           ELSE LeaveRequest(c, "receive_failed", "failed")
    /\ UNCHANGED connframe

\* modbus_reply(modbus, query, rc, mapping) on the socket of the context, and the
\* exit after it
ReplyOn ==
    /\ \E c \in Conns, sent \in BOOLEAN :
        /\ tpc[c] = "reply"
        /\ IF sent THEN LeaveRequest(c, "reply", "ready")
           ELSE LeaveRequest(c, "reply_failed", "failed")
    /\ UNCHANGED connframe

Threads == CallHandleRequest \/ PollClient \/ LockGuard \/ SelectSocket \/ ReceiveOn \/ ReplyOn

\* the server without poll after its constructor: connections are accepted and
\* served by one thread each
InitConn ==
    InitCtorWith([mode : {"legacy"}, arg : {"shm1"}], {DefaultTcpTimeout}, NoSocket)

SpecConn == InitConn /\ [][Constructor \/ ConnectClient \/ Threads]_vars

\* the whole life of a server built by either constructor of Client_Poll, with
\* one client at most and no semaphore
InitLife ==
    \E c \in SingleCtors \cup PerIdCtors, rc \in BOOLEAN :
        /\ InitWith(1, rc, FALSE, c, Untracked)
        /\ fallback_mapping = NULL
        /\ modbus_socket = NoSocket

SpecLife == InitLife /\ [][Run \/ Destroy \/ ProcessExit]_vars

\* the semaphore with isolated failures: a failed acquire comes only after MinGap
\* successful ones since the last failure, or as the first attempt
InitIsolated ==
    /\ InitWith(MaxClients, TRUE, TRUE, [mode |-> "single", arg |-> "shm1"],
                [j |-> -3, k |-> MinGap])
    /\ fallback_mapping = NULL
    /\ modbus_socket = Unobserved

SpecIsolated == InitIsolated /\ [][Next]_vars

\* one client at most, with and without the semaphore, acquires failing and
\* succeeding in any order
InitAnyOrder ==
    \E rc \in BOOLEAN, se \in BOOLEAN :
        /\ InitWith(1, rc, se, [mode |-> "single", arg |-> "shm1"], [j |-> -4, k |-> -4])
        /\ fallback_mapping = NULL
        /\ modbus_socket = Unobserved

SpecAnyOrder == InitAnyOrder /\ [][Next]_vars

\* the whole life of the process with one client at most, with and without the
\* semaphore: acquire attempts are counted and the context's socket is followed
InitSemExit ==
    \E rc \in BOOLEAN, se \in BOOLEAN :
        /\ InitWith(1, rc, se, [mode |-> "single", arg |-> "shm1"], [j |-> 0, k |-> 0])
        /\ fallback_mapping = NULL
        /\ modbus_socket = NoSocket

SpecSemExit == InitSemExit /\ [][Next \/ Destroy \/ ProcessExit]_vars

\* the notifier on its own: processes are added and callbacks come in
InitNF ==
    /\ InitWith(1, TRUE, FALSE, [mode |-> "single", arg |-> "shm1"], Untracked)
    /\ fallback_mapping = NULL
    /\ modbus_socket = Unobserved

SpecNF == InitNF /\ [][NfAdd \/ NfCallback]_vars

(***************************************************************************)
(* Properties.                                                             *)
(***************************************************************************)
\* a step of run() that returns (an exception is no return)
Returns ==
    /\ pc \in {"clients", "sem", "reply"}
    /\ pc' \in {"idle", "done"}
    /\ result' \in {"ok", "term_nocon", "semaphore"}

\* C1: with the semaphore configured, whenever the server is at the codec reply
\* step it holds the semaphore and no external process holds it, also after an
\* acquire that timed out below SEMAPHORE_ERROR_MAX.
C1_ReplyHoldsXPM ==
    (sem_enabled /\ pc = "reply") => (sem_acquired /\ ~ext_holds)

\* C2: the connection table never holds more than max_clients entries.
C2_TableWithinMax == Cardinality(client_addrs) <= max_clients

C2_Witness ==
    /\ max_clients = MaxClients
    /\ Cardinality(client_addrs) = max_clients
    /\ pc = "idle"
    /\ result = "ok"

\* C3: a served request makes the notifier broadcast exactly once, with its
\* function code, iff the code is one of 05, 06, 15, 16, 23; no other request
\* makes it broadcast.
C3_BroadcastOncePerWrite ==
    [][(pc = "reply" /\ ev'.op = "reply")
        => notified' = notified \o mb_callback(ev'.fc)]_vars

\* C4: after J failed acquires followed by K successful ones the counter is
\* max(0, J*INC - K*DEC); up to J = 99 no cycle has returned semaphore, and the
\* cycle of the 100th failure returns it.
C4_CounterDecay ==
    Tracked =>
        /\ semaphore_error_counter =
               Max(0, acq.j * SEMAPHORE_ERROR_INC - acq.k * SEMAPHORE_ERROR_DEC)
        /\ acq.j <= 99 => result # "semaphore"
        /\ (acq.j = 100 /\ acq.k = 0) => (result = "semaphore" /\ pc = "done")

C4_Witness == acq = [j |-> 100, k |-> 0] /\ result = "semaphore"

\* C5: the failed acquire that brings the counter to SEMAPHORE_ERROR_MAX ends the
\* cycle with semaphore; the connection of the request is closed and removed and no
\* other one is, no bank changes, no reply is written, and run() is left at once.
C5_FatalPath ==
    [][(pc = "sem" /\ semaphore_error_counter' > semaphore_error_counter
            /\ semaphore_error_counter' >= SEMAPHORE_ERROR_MAX)
        => /\ result' = "semaphore"
           /\ pc' = "done"
           /\ client_addrs' = client_addrs \ {cur}
           /\ open_fds' = open_fds \ {cur}
           /\ regs' = regs
           /\ ev'.op = "sem_fatal"
           /\ sem_acquired' = FALSE]_vars

C5_Witness ==
    /\ result = "semaphore"
    /\ max_clients = 2
    /\ Cardinality(client_addrs) = 1
    /\ open_fds = client_addrs

\* C6 as stated: with reconnect off, every returning cycle that leaves the table
\* empty returns term_nocon, the semaphore's fatal path included.
C6_Original ==
    [][(Returns /\ ~reconnect /\ client_addrs' = {}) => result' = "term_nocon"]_vars

\* C6 amended: with reconnect off, a cycle that runs to its end and leaves the table
\* empty returns term_nocon, and one the semaphore's fatal path ends returns
\* semaphore; with reconnect on no cycle returns term_nocon.
C6_TermNocon ==
    /\ [](reconnect => result # "term_nocon")
    /\ [][Returns =>
            /\ (~reconnect /\ client_addrs' = {} /\ pc # "sem") => result' = "term_nocon"
            /\ (~reconnect /\ client_addrs' = {} /\ pc = "sem") => result' = "semaphore"
            /\ result' = "term_nocon" => (~reconnect /\ client_addrs' = {})]_vars

C6_Witness ==
    /\ result = "term_nocon"
    /\ ~reconnect
    /\ client_addrs = {}
    /\ open_fds = {}
    /\ pc = "done"

\* C7: a cycle whose poll reports the signal fd readable returns term_signal and
\* leaves the table, the sockets, the banks, the counter and the semaphore alone.
C7_TermSignal ==
    [][(pc = "idle" /\ BitAnd(sig_revents', POLLIN) # 0)
        => /\ result' = "term_signal"
           /\ pc' = "done"
           /\ ev' = NoEv
           /\ UNCHANGED <<client_addrs, open_fds, regs, semaphore_error_counter,
                          semvars, notified>>]_vars

C7_Witness ==
    /\ result = "term_signal"
    /\ BitAnd(sig_revents, POLLIN) # 0
    /\ Cardinality(client_addrs) = 2

\* C8: a client fd reported with the hang-up bit and without the error bit is
\* closed and removed from the table by the iteration that handles it.
C8_HangupCloses ==
    [][\A fd \in todo, rv \in ClientRevents :
        (HupNoErr(rv) /\ ClientStepOn(fd, rv))
            => (fd \notin client_addrs' /\ fd \notin open_fds')]_vars

\* C9: a failed receive or reply closes and removes that connection and no other,
\* run() goes on with the loop, and the end of the loop returns ok or term_nocon.
C9_FaultClosesOne ==
    [][/\ (pc = "clients" /\ todo' # todo
              /\ ev'.op \in {"zero", "ECONNRESET", "error"})
          => /\ client_addrs' = client_addrs \ {ev'.fd}
             /\ open_fds' = open_fds \ {ev'.fd}
             /\ ev'.fd \in client_addrs
             /\ pc' = "clients"
             /\ result' = result
       /\ (pc = "reply" /\ ev'.op = "reply_failed")
          => /\ client_addrs' = client_addrs \ {cur}
             /\ open_fds' = open_fds \ {cur}
             /\ cur \in client_addrs
             /\ pc' = "clients"
             /\ result' = result
       /\ (pc = "clients" /\ todo = {} /\ pc' # pc)
          => /\ result' = IF ~reconnect /\ client_addrs = {} THEN "term_nocon" ELSE "ok"
             /\ UNCHANGED <<client_addrs, open_fds>>]_vars

C9_Witness ==
    /\ pc = "clients"
    /\ ev.op \in {"error", "reply_failed"}
    /\ ev.fd \notin client_addrs
    /\ Cardinality(client_addrs) = 1

\* C10: the lookup of every unit id gives a bank, for the single-mapping
\* constructor (a null argument included) and for the per-id one with any slots
\* absent, and no cycle changes a slot.
C10_DirectoryFull ==
    /\ [](\A unit_id \in UnitIds : Lookup(unit_id) \in Banks)
    /\ [][mappings' = mappings]_vars

C10_Witness ==
    /\ ctor.mode = "per_id"
    /\ ctor.arg[0] = NULL
    /\ ctor.arg[1] = "shm1"
    /\ mappings[0] = NewMapping
    /\ mappings[1] = "shm1"
    /\ ev.op = "reply"
    /\ ev.fc = MODBUS_FC_WRITE_SINGLE_REGISTER
    /\ ev.exc = 0
    /\ regs[NewMapping][0] = MaxVal

\* C11: per-id construction keeps every supplied handle; the absent slots share one
\* fallback bank that no supplied slot holds; and a fallback bank exists iff some
\* slot is left to it, in the constructor as in main().
C11_FallbackIffNeeded ==
    /\ \A i \in UnitIds : ctor.arg[i] # NULL => mappings[i] = ctor.arg[i]
    /\ \A i \in UnitIds : ctor.arg[i] = NULL =>
            /\ mappings[i] = delete_mapping
            /\ delete_mapping # NULL
            /\ \A j \in UnitIds : ctor.arg[j] # delete_mapping
    /\ delete_mapping # NULL <=> \E i \in UnitIds : ctor.arg[i] = NULL
    /\ fallback_mapping # NULL <=> \E i \in UnitIds : mappings[i] = FallbackName

\* modbus_reply ran on the request received from unit id ev.unit and was sent
Replied == pc = "reply" /\ ev.op = "request" /\ ev'.op = "reply"

\* C12: a served FC 06 write of V to register R at unit id U leaves V in R of U's
\* bank, a served FC 03 read of R at any unit id gives what R of that unit id's
\* bank holds, on whatever connection, and a register changes only by such a
\* write to it: a read after the write returns V.
C12_RoundTrip ==
    [][/\ (Replied /\ ev'.fc = MODBUS_FC_WRITE_SINGLE_REGISTER /\ ev'.exc = 0)
          => regs'[mappings[ev.unit]][ev'.addr] = ev'.val
       /\ (Replied /\ ev'.fc = MODBUS_FC_READ_HOLDING_REGISTERS /\ ev'.exc = 0)
          => ev'.val = regs[mappings[ev.unit]][ev'.addr]
       /\ \A b \in Banks, r \in 0 .. (NumRegs - 1) :
            regs'[b][r] # regs[b][r]
                => /\ pc = "reply"
                   /\ ev'.fc = MODBUS_FC_WRITE_SINGLE_REGISTER
                   /\ b = mappings[ev.unit]
                   /\ r = ev'.addr]_vars

C12_Witness ==
    /\ ev.op = "reply"
    /\ ev.fc = MODBUS_FC_READ_HOLDING_REGISTERS
    /\ ev.exc = 0
    /\ ev.val = MaxVal
    /\ ev.fd = server_socket + 2
    /\ mappings[0] = mappings[1]

\* C13: a request changes no register of a bank other than the one its unit id
\* byte selects: what is visible at a unit id whose slot holds another bank stays.
C13_Isolation ==
    [][/\ (pc = "clients" /\ ev'.op = "request") => mapping' = mappings[ev'.unit]
       /\ pc = "reply" =>
            /\ mapping = mappings[ev.unit]
            /\ \A u2 \in UnitIds :
                mappings[u2] # mappings[ev.unit] => regs'[mappings[u2]] = regs[mappings[u2]]
            /\ \A b \in Banks : b # mappings[ev.unit] => regs'[b] = regs[b]]_vars

C13_Witness ==
    /\ ev.op = "reply"
    /\ ev.fc = MODBUS_FC_WRITE_SINGLE_REGISTER
    /\ mappings[0] = SeparateName(0)
    /\ mappings[1] = FallbackName
    /\ regs[mappings[0]][0] = MaxVal
    /\ regs[mappings[1]][0] = 0

\* C14: a request for an address beyond the size of the bank is answered with
\* exception 02, changes no bank and keeps its connection, and the cycle that
\* ends after it returns ok.
C14_IllegalAddress ==
    [][/\ (pc = "reply" /\ ev'.op = "reply" /\ ev'.addr >= NumRegs)
          => /\ ev'.exc = MODBUS_EXCEPTION_ILLEGAL_DATA_ADDRESS
             /\ regs' = regs
             /\ client_addrs' = client_addrs
             /\ open_fds' = open_fds
             /\ cur \in client_addrs
             /\ pc' = "clients"
             /\ result' = result
       /\ (pc = "clients" /\ ev.op = "reply" /\ ev.addr >= NumRegs /\ todo = {}
              /\ pc' # pc)
          => /\ result' = "ok"
             /\ pc' = "idle"
             /\ ev.fd \in client_addrs'
             /\ regs' = regs]_vars

C14_Witness ==
    /\ pc = "clients"
    /\ todo = {}
    /\ ev.op = "reply"
    /\ ev.fc = MODBUS_FC_WRITE_SINGLE_REGISTER
    /\ ev.addr = NumRegs
    /\ ev.exc = MODBUS_EXCEPTION_ILLEGAL_DATA_ADDRESS
    /\ ev.fd \in client_addrs
    /\ regs = [b \in Banks |-> [r \in 0 .. (NumRegs - 1) |-> 0]]

\* C15: a request is read from a connection only when no request is in progress;
\* from then on the socket in use is the one it was read from until its reply is
\* written there, and every reply goes to the socket its request was read from.
C15_ReplyBeforeNextRead ==
    /\ [](pc \in {"sem", "reply"} => (cur \in client_addrs /\ cur \in open_fds))
    /\ [](pc \in {"idle", "clients", "done"} => cur = 0)
    /\ [][/\ (pc = "clients" /\ ev'.op = "request" /\ pc' # pc)
             => /\ cur' = ev'.fd
                /\ ev'.fd \in todo
                /\ pc' \in {"sem", "reply"}
          /\ pc = "sem" => (cur' = cur \/ pc' = "done")
          /\ (pc = "reply" /\ pc' # pc)
             => /\ ev'.op \in {"reply", "reply_failed"}
                /\ ev'.fd = cur
                /\ pc' = "clients"]_vars

C15_Witness ==
    /\ pc = "clients"
    /\ ev.op = "reply"
    /\ ev.fd = server_socket + 2
    /\ client_addrs = {server_socket + 1, server_socket + 2}
    /\ todo = {}

\* C16: when run() has returned, the keys of the table are exactly the open client
\* sockets; a key is added only by a successful accept, a key is removed exactly
\* when its socket is closed, and the signal fd and the server socket are never keys.
C16_TableIsOpenFds ==
    /\ []((pc \in {"idle", "done"} /\ result \in run_t \cup {"none"})
           => client_addrs = open_fds)
    /\ [](signal_fd \notin client_addrs /\ server_socket \notin client_addrs)
    /\ [][/\ client_addrs' \ client_addrs # {}
             => /\ pc = "idle"
                /\ ev'.op = "accept"
                /\ client_addrs' = client_addrs \cup {ev'.fd}
                /\ ev'.fd \in open_fds' \ open_fds
          /\ client_addrs \ client_addrs' = open_fds \ open_fds']_vars

C16_Witness ==
    /\ pc = "idle"
    /\ result = "ok"
    /\ ~sem_enabled
    /\ client_addrs = {server_socket + 1}
    /\ open_fds = {server_socket + 1}
    /\ regs["shm1"][0] = MaxVal

\* C20: outside the exchange of one request the server does not hold the
\* semaphore: whatever run() returns or throws, and after a reply that failed and
\* closed the connection, what it acquired is posted again.
C20_ReleasedOnExit ==
    pc \in {"idle", "clients", "done"} =>
        /\ ~sem_acquired
        /\ sem_value = (IF ext_holds THEN 0 ELSE 1)

C20_Witness ==
    /\ pc = "clients"
    /\ ev.op = "reply_failed"
    /\ acq = [j |-> 0, k |-> 1]
    /\ ~sem_acquired
    /\ sem_value = 1

\* C17: a broadcast in which the delivery to a process reported ESRCH leaves that
\* process out of the set, whatever the other deliveries reported, and a broadcast
\* attempts delivery to members of the set only.
C17_StaleRemoved ==
    [][nf'.op = "callback" =>
        /\ nf'.attempted \subseteq processes
        /\ \A proc \in nf'.esrch : proc \notin processes']_vars

\* C18: add_process leaves the pid in the set iff the probe succeeded or the pid
\* was a member; ESRCH raises the no-such-process error, another errno the system
\* error, and in both cases the set is unchanged.
C18_AddProbes ==
    [][nf'.op = "add" =>
        /\ nf'.pid \in processes' <=> (nf'.errno = "ok" \/ nf'.pid \in processes)
        /\ nf'.errno = "ok" =>
            (nf'.result = "ok" /\ processes' = processes \cup {nf'.pid})
        /\ nf'.errno = "ESRCH" =>
            (nf'.result = "runtime_error" /\ processes' = processes)
        /\ nf'.errno \notin {"ok", "ESRCH"} =>
            (nf'.result = "system_error" /\ processes' = processes)]_vars

C18_Witness ==
    /\ nf.op = "add"
    /\ nf.errno = "ESRCH"
    /\ nf.result = "runtime_error"
    /\ processes = {1}
    /\ nf.pid = 2

C21_WaitSet ==
    /\ [](pc = "idle" =>
            /\ signal_fd \in PollFds
            /\ client_addrs \subseteq PollFds
            /\ PollFds \subseteq {signal_fd, server_socket} \cup client_addrs
            /\ server_socket \in PollFds <=> Cardinality(client_addrs) < max_clients)
    /\ [][(pc = "idle" /\ pc' = "clients") =>
            /\ todo' = client_addrs
            /\ ev'.op = "accept" => Cardinality(client_addrs) < max_clients]_vars

\* a table of two was full, its first connection was closed, and the next wait
\* included the listening socket again: the freed descriptor is accepted anew
C21_Witness ==
    /\ max_clients = 2
    /\ pc = "clients"
    /\ ev.op = "accept"
    /\ ev.fd = server_socket + 1
    /\ client_addrs = {server_socket + 1, server_socket + 2}

\* revents that no dispatch rule of run() names: none of IN, ERR, HUP, NVAL is set
Unmatched(revents) ==
    /\ revents # 0
    /\ BitAnd(revents, POLLIN + POLLERR + POLLHUP + POLLNVAL) = 0

\* C22: for each waited fd (termination fd, listening socket, every client fd),
\* revents that are not empty and match none of the dispatch rules of that fd end
\* the cycle with a logic error; the fd is never silently passed over.
C22_UnexpectedFatal ==
    [][/\ \A rv \in SignalRevents :
            (Unmatched(rv) /\ pc = "idle" /\ sig_revents' = rv) =>
                (result' = "logic_error" /\ pc' = "done")
       /\ \A rv \in ServerRevents :
            Unmatched(rv) => ServerDispatch(rv) = "logic_error"
       /\ \A fd \in todo, rv \in ClientRevents :
            (Unmatched(rv) /\ ClientStepOn(fd, rv)) =>
                (result' = "logic_error" /\ pc' = "done")]_vars

C24_OsErrorExit ==
    (pc = "exited" /\ result \in {"system_error", "runtime_error"}) =>
        exit_status = EX_OSERR

\* C25: closing an accepted client fd is the business of the removal path alone,
\* in the cycles and at destruction: a cycle closes exactly the fds it removes from
\* the table, and the destruction of the server object closes no client fd through
\* the codec context, neither one that removal has closed already nor one that is
\* still in the table, and finds no accepted fd that is still to be closed.
C25_ClosedOnceByRemoval ==
    [][/\ pc \in {"idle", "clients", "sem", "reply"} =>
            open_fds \ open_fds' = client_addrs \ client_addrs'
       /\ (pc = "done" /\ pc' = "destroyed") =>
            /\ ~(ev'.fd # NoSocket /\ ev'.fd \notin open_fds)
            /\ open_fds' = open_fds
            /\ open_fds' = {}]_vars

\* C26: the server without poll, constructed with mapping == nullptr, generates a
\* mapping and uses it for every unit id: no slot of its directory is null.
C26_LegacyGenerated ==
    (pc = "legacy" /\ ctor.arg = NULL) =>
        \A i \in UnitIds : mappings[i] = NewMapping /\ mappings[i] # NULL

\* C27: for tcp_timeout >= 1 the socket gets keepalive idle 1 s, at most 5 probes,
\* the interval max(tcp_timeout / 5, 1) s and the user timeout tcp_timeout * 1000 ms,
\* and count * interval is at most tcp_timeout; for tcp_timeout = 0 no option is set.
C27_TcpTimeout ==
    pc # "ctor" =>
        /\ tcp_timeout = 0 => sockopts = NoSockopts
        /\ tcp_timeout >= 1 =>
            /\ DOMAIN sockopts =
                    {"TCP_USER_TIMEOUT", "TCP_KEEPIDLE", "TCP_KEEPINTVL", "TCP_KEEPCNT"}
            /\ DivUnsigned(sockopts.TCP_KEEPIDLE, 1) = 1
            /\ DivUnsigned(sockopts.TCP_KEEPCNT, 1) <= 5
            /\ DivUnsigned(sockopts.TCP_KEEPINTVL, 1) = Max(tcp_timeout \div 5, 1)
            /\ DivUnsigned(sockopts.TCP_KEEPCNT, 1) * DivUnsigned(sockopts.TCP_KEEPINTVL, 1)
                    <= tcp_timeout
            /\ ModUnsigned(sockopts.TCP_USER_TIMEOUT, 1000) = 0
            /\ DivUnsigned(sockopts.TCP_USER_TIMEOUT, 1000) = tcp_timeout

\* poll() reported the fd readable or in error, and valid
Ready(revents) ==
    /\ BitAnd(revents, POLLIN + POLLERR) # 0
    /\ BitAnd(revents, POLLNVAL) = 0

\* C28: in a cycle that does not end early, every client fd reported readable or in
\* error gets one receive in its own iteration and at most one reply after it,
\* whatever happened to the fds before it; an fd with no revents is not read; the
\* cycle returns ok or term_nocon only after every polled client fd had its turn.
C28_OneExchangePerReady ==
    [][/\ \A fd \in todo, rv \in ClientRevents :
            ClientStepOn(fd, rv) =>
                /\ fd \notin todo'
                /\ Ready(rv) => (ev'.op \in ReceiveResults /\ ev'.fd = fd)
                /\ rv = 0 =>
                    (ev'.op = "skip" /\ pc' = "clients" /\ todo' = todo \ {fd}
                     /\ UNCHANGED <<client_addrs, open_fds, regs>>)
       /\ (pc = "clients" /\ ev' # ev /\ ev'.op \in ReceiveResults) =>
            (ev'.fd \in todo /\ todo' = todo \ {ev'.fd})
       /\ (pc = "clients" /\ pc' \in {"sem", "reply"}) =>
            (ev'.op = "request" /\ cur' = ev'.fd)
       /\ (pc = "reply" /\ pc' # "reply") =>
            /\ ev'.op \in {"reply", "reply_failed"}
            /\ ev'.fd = cur
            /\ cur \notin todo
            /\ pc' = "clients"
            /\ todo' = todo
       /\ (Returns /\ result' \in {"ok", "term_nocon"}) => todo = {}]_vars

\* two clients were polled: the first was read, its reply failed and it was closed;
\* the second is still to have its turn in this cycle
C28_Witness ==
    /\ pc = "clients"
    /\ ev.op = "reply_failed"
    /\ ev.fd = server_socket + 1
    /\ todo = {server_socket + 2}
    /\ client_addrs = {server_socket + 2}

\* the events of run() that close a connection
CloseOps == {"hangup", "zero", "ECONNRESET", "error", "reply_failed", "sem_fatal"}

\* C29: a cycle accepts at most one connection, and only before its client loop; an
\* accept adds exactly the new fd to the table and its INFO line prints the size
\* of the table after it; the INFO line of a close prints the size after the
\* removal; the accepted fd is not among the fds the same cycle serves.
C29_AcceptAndCounts ==
    [][/\ (ev' # ev /\ ev'.op = "accept") =>
            /\ pc = "idle" /\ pc' = "clients"
            /\ ev'.fd \notin client_addrs
            /\ client_addrs' = client_addrs \cup {ev'.fd}
            /\ Cardinality(client_addrs') = Cardinality(client_addrs) + 1
            /\ ev'.val = Cardinality(client_addrs')
            /\ ev'.fd \notin todo'
       /\ (pc # "idle" /\ pc' # "idle") => ev' = ev \/ ev'.op # "accept"
       /\ (pc \in {"clients", "sem", "reply"} /\ pc' \in {"clients", "sem", "reply"}) =>
            todo' \subseteq todo
       /\ (ev' # ev /\ ev'.op \in ReceiveResults \cup {"hangup"}) => ev'.fd \in todo
       /\ (ev' # ev /\ ev'.op \in CloseOps) =>
            /\ client_addrs' = client_addrs \ {ev'.fd}
            /\ ev'.fd \in client_addrs
            /\ ev'.val = Cardinality(client_addrs')]_vars

\* the second connection was accepted in a cycle that polled the first one: the
\* INFO line says 2, and the loop has the first fd only
C29_Witness ==
    /\ pc = "clients"
    /\ ev.op = "accept"
    /\ ev.fd = server_socket + 2
    /\ ev.val = 2
    /\ todo = {server_socket + 1}
    /\ client_addrs = {server_socket + 1, server_socket + 2}

\* C30: a cycle whose wait expires returns timeout, one whose wait is aborted by
\* EINTR returns interrupted; neither changes the connection table, the register
\* banks, the semaphore error counter or the semaphore, and neither returns
\* term_nocon, also with reconnect off and an empty table.
C30_TimeoutInterrupted ==
    [][/\ RunTimeout => result' = "timeout"
       /\ RunInterrupted => result' = "interrupted"
       /\ (RunTimeout \/ RunInterrupted) =>
            /\ pc' = "idle"
            /\ result' # "term_nocon"
            /\ UNCHANGED <<client_addrs, open_fds, regs, semaphore_error_counter,
                           sem_value, sem_acquired, mappings>>]_vars

\* the wait expired with reconnect off and nobody connected: the server goes on
C30_Witness ==
    /\ pc = "idle"
    /\ result = "timeout"
    /\ ~reconnect
    /\ client_addrs = {}

\* main() is past its driver loop
Ended == pc \in {"done", "destroyed", "exited"}

\* C31: the driver loop calls run() again after ok, timeout and interrupted, and
\* leaves at the first term_signal, term_nocon or semaphore; once it has left, run()
\* is never called again; after semaphore the process ends the ordinary way, with
\* the terminating log line and exit status 0.
C31_DriverLoop ==
    /\ [](pc = "idle" => result \in {"none", "ok", "timeout", "interrupted"})
    /\ [](result \in {"ok", "timeout", "interrupted"} => ~Ended)
    /\ [](result \in {"term_signal", "term_nocon", "semaphore"} => Ended)
    /\ [][Ended =>
            /\ Ended'
            /\ result' = result
            /\ pc' # pc => <<pc, pc'>> \in {<<"done", "destroyed">>, <<"destroyed", "exited">>}
            /\ UNCHANGED <<semaphore_error_counter, sem_acquired, todo, cur>>
            /\ ev' # ev => ev'.op = "destroy"
            /\ client_addrs' \subseteq client_addrs]_vars
    /\ []((pc = "exited" /\ result = "semaphore") =>
            (exit_status = 0 /\ log_terminating))
    /\ [](log_terminating => pc = "exited")

\* the semaphore gave out at the hundredth failed acquire; the process has ended
\* with the log line and status 0
C31_Witness ==
    /\ pc = "exited"
    /\ result = "semaphore"
    /\ acq.j * SEMAPHORE_ERROR_INC = SEMAPHORE_ERROR_MAX
    /\ exit_status = 0
    /\ log_terminating

\* C37: the semaphore error counter stays within 0 .. SEMAPHORE_ERROR_MAX +
\* SEMAPHORE_ERROR_INC - 1; it is below SEMAPHORE_ERROR_MAX whenever the last cycle
\* returned anything but semaphore; without a semaphore it stays 0 and no cycle
\* returns semaphore.
C37_CounterRange ==
    /\ semaphore_error_counter >= 0
    /\ semaphore_error_counter <= SEMAPHORE_ERROR_MAX + SEMAPHORE_ERROR_INC - 1
    /\ result # "semaphore" => semaphore_error_counter < SEMAPHORE_ERROR_MAX
    /\ ~sem_enabled => (semaphore_error_counter = 0 /\ result # "semaphore")

\* a cycle has returned semaphore with the counter at the upper end of its range,
\* which takes successful acquires between the failed ones
C37_Witness ==
    /\ result = "semaphore"
    /\ semaphore_error_counter = SEMAPHORE_ERROR_MAX + SEMAPHORE_ERROR_INC - 1

\* C32: the server posts the semaphore only while it holds it: a step of the
\* server raises the value only from the reply step of a request whose acquire
\* succeeded, the reply to a request whose acquire timed out leaves the value as it
\* is, and the value never exceeds its initial value 1.
C32_PostOnlyWhenHeld ==
    /\ [](sem_value \in 0 .. 1)
    /\ [](~(sem_acquired /\ ext_holds))
    /\ [][(sem_value' > sem_value /\ ext_holds' = ext_holds) =>
            (pc = "reply" /\ sem_acquired /\ ~sem_acquired' /\ sem_value' = sem_value + 1)]_vars
    /\ [][(pc = "reply" /\ pc' # "reply" /\ ~sem_acquired) =>
            UNCHANGED <<sem_value, sem_acquired>>]_vars
    /\ [][(pc = "sem" /\ ev'.op \in {"sem_timeout", "sem_fatal"}) =>
            UNCHANGED <<sem_value, sem_acquired>>]_vars

\* the only acquire attempt so far timed out and its request has been answered
C32_Witness ==
    /\ acq = [j |-> 1, k |-> 0]
    /\ ev.op = "reply"
    /\ pc = "clients"
    /\ ~sem_acquired
    /\ sem_value = 0

\* the processes a sequence of calls names
Range(s) == {s[i] : i \in 1 .. Len(s)}
\* the members of the set whose delivery reports an errno other than ESRCH
Refused(errno) == {proc \in DOMAIN errno : errno[proc] \notin {"ok", "ESRCH"}}
\* the members of the set whose delivery reports ESRCH
Stale(errno) == {proc \in DOMAIN errno : errno[proc] = "ESRCH"}

\* C33: a broadcast whose deliveries all succeed or report ESRCH completes without
\* error, calls sigqueue exactly once for each member of the set as it was at the
\* start, leaves the set without exactly the ESRCH reporters, and logs one warning
\* line for each of them; a pid that is added again is still one member.
C33_CleanBroadcast ==
    [][/\ (nf'.op = "callback" /\ nf'.sent /\ Refused(bc'.errno) = {}) =>
            /\ DOMAIN bc'.errno = processes
            /\ nf'.result = "ok"
            /\ Len(bc'.attempts) = Cardinality(processes)
            /\ Range(bc'.attempts) = processes
            /\ processes' = processes \ Stale(bc'.errno)
            /\ Len(bc'.warned) = Cardinality(Stale(bc'.errno))
            /\ Range(bc'.warned) = Stale(bc'.errno)
       /\ (nf'.op = "add" /\ nf'.errno = "ok" /\ nf'.pid \in processes) =>
            processes' = processes]_vars

\* of two members one had gone: both were signalled, one was removed with its
\* warning line
C33_Witness ==
    /\ nf.op = "callback"
    /\ nf.sent
    /\ nf.result = "ok"
    /\ DOMAIN bc.errno = {1, 2}
    /\ bc.errno[1] = "ESRCH"
    /\ bc.errno[2] = "ok"
    /\ bc.attempts = <<1, 2>>
    /\ bc.warned = <<1>>
    /\ processes = {2}

\* C34: a broadcast in which a delivery fails with an errno other than ESRCH ends
\* with the system error at that delivery: the set is left as it was, the ESRCH
\* reporters met before it included, nothing is logged and the processes after it
\* in the iteration are not signalled.
C34_AbortedBroadcast ==
    [][(nf'.op = "callback" /\ nf'.sent /\ Refused(bc'.errno) # {}) =>
        /\ nf'.result = "system_error"
        /\ processes' = processes
        /\ bc'.warned = <<>>
        /\ Len(bc'.attempts) >= 1
        /\ Len(bc'.attempts) <= Cardinality(processes)
        /\ Cardinality(Range(bc'.attempts)) = Len(bc'.attempts)
        /\ Range(bc'.attempts) \subseteq processes
        /\ bc'.attempts[Len(bc'.attempts)] \in Refused(bc'.errno)
        /\ \A i \in 1 .. (Len(bc'.attempts) - 1) :
              bc'.attempts[i] \notin Refused(bc'.errno)]_vars

\* process 1 reported ESRCH, then the delivery to process 2 was refused: process 1
\* is still a member
C34_Witness ==
    /\ nf.op = "callback"
    /\ nf.result = "system_error"
    /\ bc.attempts = <<1, 2>>
    /\ bc.errno[1] = "ESRCH"
    /\ bc.errno[2] = "EPERM"
    /\ bc.warned = <<>>
    /\ processes = {1, 2}

\* C35: a cycle returns term_nocon only with reconnect off and right after it
\* closed the last connection of the table; the table gets a connection by an
\* accept only, and a cycle begun with an empty table either ends before its
\* client loop with another outcome or accepts and has no client to serve; a cycle
\* that leaves a connection in the table, as the one that only accepts does,
\* returns ok.
C35_TermNoconAfterClose ==
    /\ [][(pc \in {"idle", "clients", "sem", "reply"} /\ result' = "term_nocon") =>
            /\ pc = "clients"
            /\ ~reconnect
            /\ ev.op \in CloseOps
            /\ ev.fd \notin client_addrs
            /\ client_addrs = {}]_vars
    /\ [][client_addrs' \ client_addrs # {} => ev'.op = "accept"]_vars
    /\ [][(pc = "idle" /\ client_addrs = {}) =>
            /\ result' # "term_nocon"
            /\ pc' = "clients" => (ev'.op = "accept" /\ todo' = {} /\ client_addrs' # {})]_vars
    /\ [][(pc = "clients" /\ pc' \in {"idle", "done"} /\ ev.op = "accept"
            /\ result' \notin {"logic_error"}) =>
            (result' = "ok" /\ pc' = "idle")]_vars
    /\ [][(Returns /\ client_addrs' # {}) => result' = "ok"]_vars

\* with reconnect off the last connection was closed and the cycle returned
\* term_nocon
C35_Witness ==
    /\ pc = "done"
    /\ result = "term_nocon"
    /\ ~reconnect
    /\ modbus_socket = server_socket + 1
    /\ client_addrs = {}

\* C36: in a run whose failed acquires each come after at least 10 successful
\* acquires since the previous failure, the error counter never exceeds 10 and no
\* cycle returns semaphore; the counter is one value for all connections: every
\* failed acquire adds 10 and every successful one takes 1 off, down to 0,
\* whichever connection the request came from, and no other step of the server,
\* an accept or a close included, changes it.
C36_IsolatedDecay ==
    /\ [](semaphore_error_counter \in 0 .. SEMAPHORE_ERROR_INC)
    /\ [](result # "semaphore")
    /\ [][semaphore_error_counter' # semaphore_error_counter =>
            (pc = "sem" /\ ev'.op \in {"sem_ok", "sem_timeout"})]_vars
    /\ [][(pc = "sem" /\ ev'.op = "sem_timeout") =>
            semaphore_error_counter' = semaphore_error_counter + SEMAPHORE_ERROR_INC]_vars
    /\ [][(pc = "sem" /\ ev'.op = "sem_ok") =>
            semaphore_error_counter' =
                (IF semaphore_error_counter >= SEMAPHORE_ERROR_DEC
                 THEN semaphore_error_counter - SEMAPHORE_ERROR_DEC ELSE 0)]_vars
    /\ [][(ev' # ev /\ ev'.op \in CloseOps \cup {"accept"}) =>
            semaphore_error_counter' = semaphore_error_counter]_vars

\* with two connections open, the acquire for a request of the second one failed
\* with the counter at 0: the counter is 10
C36_Witness ==
    /\ client_addrs = {server_socket + 1, server_socket + 2}
    /\ ev.op = "sem_timeout"
    /\ ev.fd = server_socket + 2
    /\ acq.k = 0
    /\ semaphore_error_counter = SEMAPHORE_ERROR_INC

\* C38: the acquire attempt made for a request may wait 100 ms: the timeout
\* handed to semaphore->wait is 100 milliseconds, that is 100 * 1000 * 1000 ns.
C38_WaitTimeout ==
    ev.op \in {"sem_ok", "sem_timeout", "sem_fatal"} => ev.wait = 100 * 1000 * 1000

\* how often the destructor has freed the mapping b
FreeCount(b) == Cardinality({i \in 1 .. Len(freed) : freed[i] = b})
\* the server allocated a mapping of its own: a slot of the directory holds it
Allocated == \E i \in UnitIds : mappings[i] = NewMapping

\* C40: once the destructor has run, a mapping the server allocated itself (the
\* maximum-size mapping of the single-mapping constructor given nullptr, or the
\* fallback of the per-id constructor) has been freed exactly once, and no mapping
\* of the caller has been freed; before the destructor nothing is freed.
C40_FreedOnce ==
    /\ pc \in {"destroyed", "exited"} =>
        /\ Allocated => FreeCount(NewMapping) = 1
        /\ \A b \in Banks \ {NewMapping} : FreeCount(b) = 0
        /\ FreeCount(NULL) = 0
    /\ pc \notin {"destroyed", "exited"} => freed = <<>>

\* the calls of handle_request that have taken the lock and not left yet
InRequest == {c \in Conns : tpc[c] \in {"locked", "recv", "reply"}}

\* C39: for any interleaving of handle_request calls on connections that share
\* one context: at most one call at a time is between taking the lock and its
\* exit, so every receive and every reply of a connection is made on that
\* connection's socket; a call that waits in poll() or for the lock does not hold
\* the lock; and every exit of a call that took the lock (return false, return true
\* after a reset, receive error, reply error) leaves the context on the socket it
\* had when the lock was taken and releases the lock.
C39_SharedContext ==
    /\ [](Cardinality(InRequest) <= 1)
    /\ [](\A c \in Conns : c \in InRequest <=> modbus_lock = c)
    /\ [](\A c \in Conns : tpc[c] \in {"recv", "reply"} => modbus_socket = con_socket[c])
    /\ [][(cev' # cev /\ cev'.op \in {"request", "reply", "reply_failed"}) =>
            cev'.on = con_socket[cev'.c]]_vars
    /\ [][\A c \in Conns :
            (c \in InRequest /\ tpc'[c] \notin {"locked", "recv", "reply"}) =>
                /\ modbus_socket' = at_lock[c]
                /\ modbus_lock' = 0
                /\ cev'.c = c
                /\ cev'.op \in {"return_false", "return_true", "receive_failed",
                                  "reply", "reply_failed"}]_vars

\* the first connection has answered a request on its own socket while the
\* second one had data and waited for the lock; the context is back on the socket
\* it had, which is the one of the second connection
C39_Witness ==
    /\ cev = Cev(1, "reply", con_socket[1])
    /\ tpc[2] = "lock"
    /\ tpc[1] = "ready"
    /\ modbus_lock = 0
    /\ modbus_socket = at_lock[1]
    /\ modbus_socket # con_socket[1]
====
